---- MODULE Spec2Model ----
(***************************************************************************)
(* Model of fillout's template scanner: token::Tokenizer (an Iterator      *)
(* over Result<Token, Error>) and template::parse, which folds the         *)
(* tokenizer's results into Ok(tokens) or Err((first, rest)).              *)
(*                                                                         *)
(* Text is a sequence of one-byte characters; offsets are 0-based byte     *)
(* offsets as in the Rust source, sequences are 1-based as in TLA+.        *)
(***************************************************************************)
EXTENDS Integers, Sequences, FiniteSets, TLC

\* ---------------------------------------------------------------- bounds
MaxAtoms == 5
MaxExtraCalls == 2
MaxWs == 2
MaxName == 3
MaxPairAtoms == 2
MaxRecords == 2
MaxTemplates == 2

\* Texts are built from these pieces: the two delimiters, single braces,
\* one whitespace character and one ordinary character.
Atoms == {<<"{", "{">>, <<"}", "}">>, <<"{">>, <<"}">>, <<" ">>, <<"a">>}
NameChars == {" ", "a"}

RECURSIVE StringsUpTo(_, _)
StringsUpTo(alphabet, n) ==
    IF n = 0 THEN {<<>>}
    ELSE LET shorter == StringsUpTo(alphabet, n - 1)
         IN  shorter \cup {Append(s, c) : s \in shorter, c \in alphabet}

RECURSIVE Flatten(_)
Flatten(ss) == IF ss = <<>> THEN <<>> ELSE Head(ss) \o Flatten(Tail(ss))

Texts == {Flatten(ss) : ss \in StringsUpTo(Atoms, MaxAtoms)}

\* ------------------------------------------------------- str primitives
\* &s[a..]
SliceFrom(s, a) == SubSeq(s, a + 1, Len(s))
\* &s[..b]
SliceTo(s, b) == SubSeq(s, 1, b)
\* &s[a..b]
Slice(s, a, b) == SubSeq(s, a + 1, b)

\* str::starts_with
starts_with(s, p) == Len(s) >= Len(p) /\ SubSeq(s, 1, Len(p)) = p

NotFound == -1

Min(S) == CHOOSE i \in S : \A j \in S : i <= j

\* find_open that stops at the first single "{"
find_open_SingleBrace(s) ==
    LET hits == {i \in 0..(Len(s) - 1) : s[i + 1] = "{"}
    IN  IF hits = {} THEN NotFound ELSE Min(hits)

\* str::find("{{"): offset of the first occurrence, or NotFound
find_open(s) ==
    LET hits == {i \in 0..(Len(s) - 2) : s[i + 1] = "{" /\ s[i + 2] = "{"}
    IN  IF hits = {} THEN NotFound ELSE Min(hits)

\* str::find(|c| c == '{' || c == '}')
find_brace(s) ==
    LET hits == {i \in 0..(Len(s) - 1) : s[i + 1] \in {"{", "}"}}
    IN  IF hits = {} THEN NotFound ELSE Min(hits)

is_whitespace(c) == c = " "

RECURSIVE trim_start(_)
trim_start(s) ==
    IF s # <<>> /\ is_whitespace(Head(s)) THEN trim_start(Tail(s)) ELSE s

RECURSIVE trim_end(_)
trim_end(s) ==
    IF s # <<>> /\ is_whitespace(s[Len(s)])
    THEN trim_end(SubSeq(s, 1, Len(s) - 1)) ELSE s

\* trim that strips the back only
trim_EndOnly(s) == trim_end(s)

\* trim that strips the front only
trim_StartOnly(s) == trim_start(s)

\* str::trim
trim(s) == trim_end(trim_start(s))

\* ------------------------------------------------------ Token and Error
Lit(s) == [kind |-> "Lit", s |-> s]
Var(n) == [kind |-> "Var", s |-> n]
ExpectedDoubleRightBraces(p) == [kind |-> "EDRB", pos |-> p]
UnexpectedEndOfFile == [kind |-> "UEOF"]
\* Option::None of Iterator::next; a Some(x) is x itself
None == [kind |-> "None"]

IsOk(r) == r.kind \in {"Lit", "Var"}
IsErr(r) == r.kind \in {"EDRB", "UEOF"}

\* ------------------------------------------------------------ Tokenizer
Tokenizer(state, corpus, offset, start) ==
    [state |-> state, corpus |-> corpus, offset |-> offset, start |-> start]

\* new that takes a single "{" for an opener
new_SingleBrace(corpus) ==
    IF starts_with(corpus, <<"{">>)
    THEN Tokenizer("Var", corpus, 2, 0)
    ELSE Tokenizer("Lit", corpus, 0, 0)

\* Tokenizer::new
new(corpus) ==
    IF starts_with(corpus, <<"{", "{">>)
    THEN Tokenizer("Var", corpus, 2, 0)
    ELSE Tokenizer("Lit", corpus, 0, 0)

Step(token, state, delta, offset) ==
    [token |-> token, state |-> state, delta |-> delta, offset |-> offset]

\* LitArm with the consumed length taken from the search result alone
LitArm_DeltaWithoutOffset(tk) ==
    LET i == find_open(SliceFrom(tk.corpus, tk.offset))
    IN  IF i # NotFound
        THEN Step(Lit(SliceTo(tk.corpus, tk.offset + i)), "Var", i, 0)
        ELSE Step(Lit(tk.corpus), "Lit", Len(tk.corpus), 0)

\* LitArm searching from the start of corpus instead of from offset
LitArm_SearchFromStart(tk) ==
    LET i == find_open(tk.corpus)
    IN  IF i # NotFound
        THEN Step(Lit(SliceTo(tk.corpus, i)), "Var", i, 0)
        ELSE Step(Lit(tk.corpus), "Lit", Len(tk.corpus), 0)

\* the State::Lit arm of next
LitArm(tk) ==
    LET i == find_open(SliceFrom(tk.corpus, tk.offset))
    IN  IF i # NotFound
        THEN Step(Lit(SliceTo(tk.corpus, tk.offset + i)), "Var", tk.offset + i, 0)
        ELSE Step(Lit(tk.corpus), "Lit", Len(tk.corpus), 0)

\* AfterVar that never looks at what follows the placeholder
AfterVar_AlwaysLit(corpus, e) == "Lit"

\* state after a closed placeholder whose closing braces end at offset e
AfterVar(corpus, e) ==
    IF starts_with(SliceFrom(corpus, e), <<"{", "{">>) THEN "Var" ELSE "Lit"

\* EdrbOffset reset to the start of corpus, as in the Ok arms
EdrbOffset_Reset(i) == 0

\* EdrbOffset one past the offending character
EdrbOffset_PastChar(i) == 3 + i

\* the resume offset stored after ExpectedDoubleRightBraces
EdrbOffset(i) == 2 + i

\* EdrbPos relative to the remaining text
EdrbPos_Relative(tk, i) == 2 + i

\* EdrbPos without the two bytes of the opener
EdrbPos_NoOpener(tk, i) == tk.start + i

\* the position reported by ExpectedDoubleRightBraces
EdrbPos(tk, i) == tk.start + 2 + i

\* VarArm that resets the offset after UnexpectedEndOfFile
VarArm_UeofNoResume(tk) ==
    LET i == find_brace(SliceFrom(tk.corpus, 2))
    IN  IF i # NotFound
        THEN IF starts_with(SliceFrom(tk.corpus, 2 + i), <<"}", "}">>)
             THEN Step(Var(trim(Slice(tk.corpus, 2, 2 + i))),
                       AfterVar(tk.corpus, 4 + i), 4 + i, 0)
             ELSE Step(ExpectedDoubleRightBraces(EdrbPos(tk, i)),
                       "Lit", 0, EdrbOffset(i))
        ELSE Step(UnexpectedEndOfFile, "Lit", 0, 0)

\* the State::Var arm of next
VarArm(tk) ==
    LET i == find_brace(SliceFrom(tk.corpus, 2))
    IN  IF i # NotFound
        THEN IF starts_with(SliceFrom(tk.corpus, 2 + i), <<"}", "}">>)
             THEN Step(Var(trim(Slice(tk.corpus, 2, 2 + i))),
                       AfterVar(tk.corpus, 4 + i), 4 + i, 0)
             ELSE Step(ExpectedDoubleRightBraces(EdrbPos(tk, i)),
                       "Lit", 0, EdrbOffset(i))
        ELSE Step(UnexpectedEndOfFile, "Lit", 0, 2)

\* a slice index past the end of corpus panics
SliceInBounds(tk) ==
    IF tk.state = "Lit" THEN tk.offset <= Len(tk.corpus) ELSE 2 <= Len(tk.corpus)

is_empty_OffByOne(s) == Len(s) <= 1

is_empty(s) == Len(s) = 0

\* Iterator::next: the value returned and the tokenizer afterwards
next(tk) ==
    IF is_empty(tk.corpus)
    THEN [ret |-> None, tk |-> tk]
    ELSE IF ~SliceInBounds(tk)
    THEN [ret |-> [kind |-> "Panic"], tk |-> tk]
    ELSE LET st == IF tk.state = "Lit" THEN LitArm(tk) ELSE VarArm(tk)
         IN  [ret |-> st.token,
              tk  |-> Tokenizer(st.state, SliceFrom(tk.corpus, st.delta),
                                st.offset, tk.start + st.delta)]

\* ---------------------------------------------------------------- parse
OkResult(tokens) == [ok |-> TRUE, tokens |-> tokens]
ErrResult(first, rest) == [ok |-> FALSE, first |-> first, rest |-> rest]

\* parseMatch whose (Err, Ok) arm goes back to collecting tokens
parseMatch_Restart(result, token) ==
    IF result.ok
    THEN IF IsOk(token)
         THEN OkResult(Append(result.tokens, token))
         ELSE ErrResult(token, <<>>)
    ELSE IF IsOk(token)
         THEN OkResult(<<token>>)
         ELSE ErrResult(result.first, Append(result.rest, token))

\* the match in the body of parse's for loop
parseMatch(result, token) ==
    IF result.ok
    THEN IF IsOk(token)
         THEN OkResult(Append(result.tokens, token))
         ELSE ErrResult(token, <<>>)
    ELSE IF IsOk(token)
         THEN result
         ELSE ErrResult(result.first, Append(result.rest, token))

\* ---------------------------------------------------------------- state
VARIABLES
    text,     \* the template text handed to Tokenizer::new and to parse
    t,        \* a Tokenizer driven directly through next
    ret,      \* what the last call of t.next() returned
    out,      \* one entry per Some(..) that t has yielded, in order
    calls,    \* number of calls of t.next() so far
    it,       \* the Tokenizer that parse iterates over
    result,   \* parse's accumulator
    pc,       \* parse: "loop" inside the for loop, "done" once returned
    \* two independent tokenizers, as in one parse per template file
    texts,    \* the text each of the two was made for
    tks,      \* the two Tokenizers
    rets,     \* what the last call of each one's next() returned
    outs,     \* the results each has yielded, in order
    \* data::parse
    input,    \* the lines of the data file
    rdr,      \* the records the csv reader has still to deliver
    output,   \* the HashMap built so far, as a set of <<key, value>>
    dres,     \* what data::parse returned, or Running
    \* main
    templates,   \* the contents of the template files, in argument order
    stdin,       \* the lines of the data file on standard input
    mpc,         \* where main is
    attempts,    \* how many templates template::parse has been called on
    parsed,      \* the token lists of the templates parsed so far
    input_vars,  \* the map data::parse gave main
    warned,      \* names warned about as unrecognized
    report,      \* the error main returned, outermost context first
    files,       \* the output files: opened, truncated, content written
    evals        \* one entry per Token::eval of a Var: the name, and whether it was a key

tokvars == <<text, t, ret, out, calls, it, result, pc>>
pairvars == <<texts, tks, rets, outs>>
datavars == <<input, rdr, output, dres>>
mainvars == <<templates, stdin, mpc, attempts, parsed, input_vars, warned,
              report, files, evals>>
vars == <<tokvars, pairvars, datavars, mainvars>>

NoCall == [kind |-> "NoCall"]

Start(corpus) ==
    /\ text = corpus
    /\ t = new(corpus)
    /\ ret = NoCall
    /\ out = <<>>
    /\ calls = 0
    /\ it = new(corpus)
    /\ result = OkResult(<<>>)
    /\ pc = "loop"

Running == [kind |-> "Running"]

\* the two tokenizers, data::parse and main when they are not being run
PairIdle ==
    /\ texts = <<>>
    /\ tks = <<>>
    /\ rets = <<>>
    /\ outs = <<>>

DataIdle ==
    /\ input = <<>>
    /\ rdr = <<>>
    /\ output = {}
    /\ dres = [kind |-> "Idle"]

MainIdle ==
    /\ templates = <<>>
    /\ stdin = <<>>
    /\ mpc = "idle"
    /\ attempts = 0
    /\ parsed = <<>>
    /\ input_vars = {}
    /\ warned = {}
    /\ report = <<>>
    /\ files = <<>>
    /\ evals = <<>>

Init == (\E corpus \in Texts : Start(corpus)) /\ PairIdle /\ DataIdle /\ MainIdle

\* what one yielded result did: the state it ran in, the absolute offset it
\* ran at, the bytes it consumed and the tokenizer fields it left behind
Entry(tk, r) ==
    [res  |-> r.ret,
     st   |-> tk.state,
     at   |-> Len(text) - Len(tk.corpus),
     span |-> SliceTo(tk.corpus, Len(tk.corpus) - Len(r.tk.corpus)),
     nst  |-> r.tk.state,
     off  |-> r.tk.offset]

\* one call of t.next()
TokenizerNext ==
    /\ calls < Len(text) + MaxExtraCalls
    /\ calls - Len(out) < MaxExtraCalls
    /\ LET r == next(t)
       IN  /\ t' = r.tk
           /\ ret' = r.ret
           /\ out' = IF r.ret = None THEN out ELSE Append(out, Entry(t, r))
    /\ calls' = calls + 1
    /\ UNCHANGED <<text, it, result, pc>>
    /\ UNCHANGED <<pairvars, datavars, mainvars>>

\* one iteration of parse's for loop; the loop ends, and parse returns
\* result, when the iterator returns None
ParseLoop ==
    /\ pc = "loop"
    /\ LET r == next(it)
       IN  /\ it' = r.tk
           /\ IF r.ret = None
              THEN pc' = "done" /\ result' = result
              ELSE pc' = "loop" /\ result' = parseMatch(result, r.ret)
    /\ UNCHANGED <<text, t, ret, out, calls>>
    /\ UNCHANGED <<pairvars, datavars, mainvars>>

Next == TokenizerNext \/ ParseLoop

\* texts of the shape of tests::var_trim: "{{", whitespace, a name without
\* braces or surrounding whitespace, whitespace, "}}"
Ws == StringsUpTo({" "}, MaxWs)
Names == {n \in StringsUpTo(NameChars, MaxName) :
            n = <<>> \/ (n[1] # " " /\ n[Len(n)] # " ")}
Padded(l, n, r) == <<"{", "{">> \o l \o n \o r \o <<"}", "}">>

InitTrim ==
    /\ \E l \in Ws, n \in Names, r \in Ws : Start(Padded(l, n, r))
    /\ PairIdle /\ DataIdle /\ MainIdle

SpecTrim == InitTrim /\ [][Next]_vars

Spec == Init /\ [][Next]_vars

TokIdle == Start(<<>>)

\* ------------------------------------------------- two tokenizers at once
PairAtoms == {<<"{", "{">>, <<"}", "}">>, <<"{">>, <<"a">>}
PairTexts == {Flatten(ss) : ss \in StringsUpTo(PairAtoms, MaxPairAtoms)}

\* call_next if the field start were one counter shared by all tokenizers
call_next_SharedStart(ts, i) ==
    LET r == next(ts[i])
    IN  [tks |-> [j \in DOMAIN ts |->
                    IF j = i THEN r.tk ELSE [ts[j] EXCEPT !.start = r.tk.start]],
         ret |-> r.ret]

\* ts[i].next(): next takes &mut self and nothing else, so only ts[i] changes
call_next(ts, i) ==
    LET r == next(ts[i])
    IN  [tks |-> [ts EXCEPT ![i] = r.tk], ret |-> r.ret]

InitPair ==
    /\ \E a, b \in PairTexts :
          /\ texts = <<a, b>>
          /\ tks = <<new(a), new(b)>>
    /\ rets = <<NoCall, NoCall>>
    /\ outs = <<<<>>, <<>>>>
    /\ TokIdle /\ DataIdle /\ MainIdle

\* one call of next on tokenizer i, until it has returned None
PairNext(i) ==
    /\ rets[i] # None
    /\ LET c == call_next(tks, i)
       IN  /\ tks' = c.tks
           /\ rets' = [rets EXCEPT ![i] = c.ret]
           /\ outs' = [outs EXCEPT ![i] = IF c.ret = None THEN @ ELSE Append(@, c.ret)]
    /\ UNCHANGED <<texts, tokvars, datavars, mainvars>>

NextPair == \E i \in {1, 2} : PairNext(i)

SpecPair == InitPair /\ [][NextPair]_vars

\* ----------------------------------------------------------- data::parse
\* A line of the data file: a comment line (it starts with '#'), or a
\* record with its raw fields.
KeyA == <<"a">>
KeyAPadded == <<" ", "a", " ">>
KeyB == <<"b">>
ValV == <<"v">>
ValWPadded == <<"w", " ">>
Line(comment, fields) == [comment |-> comment, fields |-> fields]
DataLines ==
    {Line(TRUE, <<KeyA, ValV>>),
     Line(FALSE, <<KeyA, ValV>>),
     Line(FALSE, <<KeyAPadded, ValWPadded>>),
     Line(FALSE, <<KeyB, ValWPadded>>),
     Line(FALSE, <<KeyB, ValV>>),
     Line(FALSE, <<KeyA>>),
     Line(FALSE, <<KeyA, ValV, KeyB>>)}

\* rdr.records() under has_headers(false), flexible(true), trim(Trim::All)
\* and comment(Some(b'#')): comment lines are skipped, every field trimmed
csv_records(lines) ==
    LET numbered == [i \in 1..Len(lines) |->
                        [line    |-> i,
                         comment |-> lines[i].comment,
                         fields  |-> [j \in 1..Len(lines[i].fields) |->
                                         trim(lines[i].fields[j])]]]
    IN  SelectSeq(numbered, LAMBDA r : ~r.comment)

\* HashMap::insert that reports no previous value
insert_Overwrite(map, key, value) ==
    [map |-> {p \in map : p[1] # key} \cup {<<key, value>>},
     old |-> FALSE]

\* HashMap::insert: the map afterwards and whether the key was present
insert(map, key, value) ==
    [map |-> {p \in map : p[1] # key} \cup {<<key, value>>},
     old |-> \E p \in map : p[1] = key]

DataOk(map) == [kind |-> "Ok", output |-> map]
DataErr(err) == [kind |-> "Err", err |-> err]

\* the body of data::parse's for loop on one record
parseRecord(map, record) ==
    IF Len(record.fields) # 2
    THEN [ok |-> FALSE,
          err |-> [kind |-> "fields", line |-> record.line,
                   found |-> Len(record.fields)]]
    ELSE LET key   == trim(record.fields[1])
             value == trim(record.fields[2])
             ins   == insert(map, key, value)
         IN  IF ins.old
             THEN [ok |-> FALSE, err |-> [kind |-> "duplicate", key |-> key]]
             ELSE [ok |-> TRUE, output |-> ins.map]

\* data::parse as one call: the loop run over all records
RECURSIVE data_loop(_, _)
data_loop(map, records) ==
    IF records = <<>> THEN DataOk(map)
    ELSE LET r == parseRecord(map, Head(records))
         IN  IF r.ok THEN data_loop(r.output, Tail(records)) ELSE DataErr(r.err)

data_parse(lines) == data_loop({}, csv_records(lines))

InitData ==
    /\ \E lines \in StringsUpTo(DataLines, MaxRecords) :
          /\ input = lines
          /\ rdr = csv_records(lines)
    /\ output = {}
    /\ dres = Running
    /\ TokIdle /\ PairIdle /\ MainIdle

\* one iteration of data::parse's for loop, or its return after the last
DataLoop ==
    /\ dres = Running
    /\ IF rdr = <<>>
       THEN /\ dres' = DataOk(output)
            /\ UNCHANGED <<rdr, output>>
       ELSE LET r == parseRecord(output, Head(rdr))
            IN  /\ rdr' = Tail(rdr)
                /\ IF r.ok
                   THEN output' = r.output /\ dres' = dres
                   ELSE output' = output /\ dres' = DataErr(r.err)
    /\ UNCHANGED <<input, tokvars, pairvars, mainvars>>

NextData == DataLoop

SpecData == InitData /\ [][NextData]_vars

\* ----------------------------------------------------------------- main
\* contents of template files: clean ones using the names a and b, and
\* malformed ones (one error; two errors)
MainTexts ==
    {<<"{", "{", "a", "}", "}">>,
     <<"x", "{", "{", " ", "b", " ", "}", "}">>,
     <<"{", "{", "a", "}", "}", "{", "{", "b", "}", "}">>,
     <<"{", "{">>,
     <<"{", "{", "{", "{">>,
     <<"x">>}
MainLines ==
    {Line(FALSE, <<KeyA, ValV>>),
     Line(FALSE, <<KeyB, ValWPadded>>),
     Line(FALSE, <<KeyA>>)}

\* template::parse as one call: the for loop run until next returns None
RECURSIVE parse_loop(_, _, _)
parse_loop(res, tk, n) ==
    IF n = 0 THEN res
    ELSE LET r == next(tk)
         IN  IF r.ret = None THEN res
             ELSE parse_loop(parseMatch(res, r.ret), r.tk, n - 1)

template_parse(corpus) == parse_loop(OkResult(<<>>), new(corpus), Len(corpus) + 1)

\* .map_err(|(first, _)| first)
map_err(res) == res.first

\* impl fmt::Display for Error
Display(e) ==
    IF e.kind = "EDRB"
    THEN [msg |-> "expected }} at position", pos |-> e.pos]
    ELSE [msg |-> "unexpected end of file"]

\* anyhow context put around an error
Context(msg, about) == [context |-> msg, about |-> about]

\* Token::as_var collected over every token of every template
template_vars(tokenlists) ==
    UNION {{tokenlists[i][k].s : k \in {j \in 1..Len(tokenlists[i]) :
                                          tokenlists[i][j].kind = "Var"}} :
           i \in 1..Len(tokenlists)}

keys(map) == {p[1] : p \in map}

\* the names warned about
extra(tvars, ivars) == {name \in keys(ivars) : name \notin tvars}

\* missing with the check left out
missing_Skipped(tvars, ivars) == {}

\* the names reported as not defined in the data file
missing(tvars, ivars) == {name \in tvars : name \notin keys(ivars)}

\* Token::eval: the text written, or a panic when ctx has no such key
eval(token, ctx) ==
    IF token.kind = "Lit" THEN [hit |-> TRUE, value |-> token.s]
    ELSE IF token.s \in keys(ctx)
    THEN [hit |-> TRUE, value |-> (CHOOSE p \in ctx : p[1] = token.s)[2]]
    ELSE [hit |-> FALSE, value |-> <<>>]

Closed == [opened |-> FALSE, truncated |-> FALSE, content |-> <<>>]

InitMain ==
    /\ \E ts \in StringsUpTo(MainTexts, MaxTemplates),
          ls \in StringsUpTo(MainLines, MaxRecords) :
          /\ templates = ts
          /\ stdin = ls
          /\ files = [i \in 1..Len(ts) |-> Closed]
    /\ mpc = "parse"
    /\ attempts = 0
    /\ parsed = <<>>
    /\ input_vars = {}
    /\ warned = {}
    /\ report = <<>>
    /\ evals = <<>>
    /\ TokIdle /\ PairIdle /\ DataIdle

\* the next item of templates.iter().map(parse ..).collect::<Result<_, _>>()?
\* collect takes items until the first Err and returns it
MainParse ==
    /\ mpc = "parse"
    /\ IF attempts = Len(templates)
       THEN /\ mpc' = "data"
            /\ UNCHANGED <<attempts, parsed, report>>
       ELSE LET r == template_parse(templates[attempts + 1])
            IN  /\ attempts' = attempts + 1
                /\ IF r.ok
                   THEN /\ parsed' = Append(parsed, r.tokens)
                        /\ UNCHANGED <<mpc, report>>
                   ELSE /\ report' = <<Context("Failed to parse template-file",
                                               attempts + 1),
                                       Display(map_err(r))>>
                        /\ mpc' = "failed"
                        /\ UNCHANGED parsed
    /\ UNCHANGED <<templates, stdin, input_vars, warned, files, evals>>
    /\ UNCHANGED <<tokvars, pairvars, datavars>>

\* data::parse of stdin, the warnings, and the check for missing names
MainValidate ==
    /\ mpc = "data"
    /\ LET r == data_parse(stdin)
           tvars == template_vars(parsed)
       IN  IF r.kind = "Err"
           THEN /\ report' = <<Context("Failed to validate data file", 0), r.err>>
                /\ mpc' = "failed"
                /\ UNCHANGED <<input_vars, warned>>
           ELSE /\ input_vars' = r.output
                /\ warned' = extra(tvars, r.output)
                /\ IF missing(tvars, r.output) # {}
                   THEN /\ report' =
                             <<Context("Failed to validate data file against template-files",
                                       Len(parsed)),
                               [msg |-> "Placeholders used in templates are not defined in data file",
                                names |-> missing(tvars, r.output)]>>
                        /\ mpc' = "failed"
                   ELSE /\ mpc' = "open"
                        /\ UNCHANGED report
    /\ UNCHANGED <<templates, stdin, attempts, parsed, files, evals>>
    /\ UNCHANGED <<tokvars, pairvars, datavars>>

\* the next item of outputs.into_iter().map(open ..).collect::<Result<_, _>>()?
\* the file is created if need be and not truncated; opening may fail
MainOpen ==
    /\ mpc = "open"
    /\ LET n == Cardinality({i \in 1..Len(files) : files[i].opened})
       IN  IF n = Len(files)
           THEN /\ mpc' = "write"
                /\ UNCHANGED <<files, report>>
           ELSE \E success \in BOOLEAN :
                   IF success
                   THEN /\ files' = [files EXCEPT ![n + 1].opened = TRUE]
                        /\ UNCHANGED <<mpc, report>>
                   ELSE /\ report' = <<Context("Failed to open output file for writing",
                                               n + 1)>>
                        /\ mpc' = "failed"
                        /\ UNCHANGED files
    /\ UNCHANGED <<templates, stdin, attempts, parsed, input_vars, warned, evals>>
    /\ UNCHANGED <<tokvars, pairvars, datavars>>

\* what writing tokens does to the content of a file and to the log of
\* evaluations; a lookup miss panics and nothing more is written
RECURSIVE write_tokens(_, _, _)
write_tokens(tokens, content, log) ==
    IF tokens = <<>> THEN [content |-> content, log |-> log, panicked |-> FALSE]
    ELSE LET tok == Head(tokens)
             e   == eval(tok, input_vars)
             l   == IF tok.kind = "Var"
                    THEN Append(log, [name |-> tok.s, hit |-> e.hit]) ELSE log
         IN  IF e.hit
             THEN write_tokens(Tail(tokens), Append(content, e.value), l)
             ELSE [content |-> content, log |-> l, panicked |-> TRUE]

\* one iteration of the loop over templates zipped with outputs: truncate
\* the file, then write every token's eval
MainWrite ==
    /\ mpc = "write"
    /\ LET n == Cardinality({i \in 1..Len(files) : files[i].truncated})
       IN  IF n = Len(files)
           THEN /\ mpc' = "ok"
                /\ UNCHANGED <<files, evals, report>>
           ELSE \E success \in BOOLEAN :
                   IF success
                   THEN LET w == write_tokens(parsed[n + 1], <<>>, evals)
                        IN  /\ files' = [files EXCEPT ![n + 1].truncated = TRUE,
                                                      ![n + 1].content = w.content]
                            /\ evals' = w.log
                            /\ mpc' = IF w.panicked THEN "panic" ELSE "write"
                            /\ UNCHANGED report
                   ELSE /\ report' = <<Context("Failed to truncate output file",
                                               n + 1)>>
                        /\ mpc' = "failed"
                        /\ UNCHANGED <<files, evals>>
    /\ UNCHANGED <<templates, stdin, attempts, parsed, input_vars, warned>>
    /\ UNCHANGED <<tokvars, pairvars, datavars>>

NextMain == MainParse \/ MainValidate \/ MainOpen \/ MainWrite

SpecMain == InitMain /\ [][NextMain]_vars

\* ============================================================== claims
\* the results t has yielded so far, without the bookkeeping
Yielded == [k \in 1..Len(out) |-> out[k].res]

RECURSIVE ConcatSpans(_)
ConcatSpans(es) == IF es = <<>> THEN <<>> ELSE Head(es).span \o ConcatSpans(Tail(es))

Braces == {"{", "}"}
Open2 == <<"{", "{">>
Close2 == <<"}", "}">>
NoBrace(s) == \A q \in 1..Len(s) : s[q] \notin Braces
Exhausted == ret.kind = "None"

\* C1: the spans consumed by the steps are contiguous and tile the text: the
\* spans consumed so far followed by the remaining text are the original
\* text; a Lit token's text is the span its step consumed; a Var step
\* consumes exactly "{{", a brace-free body and "}}"; an Err step consumes
\* nothing; the field start is the number of bytes consumed, and on
\* exhaustion it is the length of the text.
C1_Tiling ==
    /\ ConcatSpans(out) \o t.corpus = text
    /\ t.start = Len(ConcatSpans(out))
    /\ \A k \in 1..Len(out) :
         LET e == out[k]
         IN  /\ e.at = Len(ConcatSpans(SubSeq(out, 1, k - 1)))
             /\ e.res.kind = "Lit" => e.res.s = e.span
             /\ e.res.kind = "Var" =>
                  /\ Len(e.span) >= 4
                  /\ SubSeq(e.span, 1, 2) = Open2
                  /\ SubSeq(e.span, Len(e.span) - 1, Len(e.span)) = Close2
                  /\ NoBrace(SubSeq(e.span, 3, Len(e.span) - 2))
             /\ e.res.kind \in {"EDRB", "UEOF"} => e.span = <<>>
             /\ e.res.kind \in {"Lit", "Var", "EDRB", "UEOF"}
    /\ Exhausted => t.start = Len(text) /\ Len(ConcatSpans(out)) = Len(text)

\* C1 witness: an exhausted run that yielded an error, a Lit and a Var
C1_Witness ==
    /\ Exhausted
    /\ \E k \in 1..Len(out) : out[k].res.kind = "EDRB"
    /\ \E k \in 1..Len(out) : out[k].res.kind = "Lit" /\ out[k].at > 0
    /\ \E k \in 1..Len(out) : out[k].res.kind = "Var" /\ out[k].at > 0

Finished == Exhausted /\ pc = "done"

\* C2: when parse has returned, it returned Ok(tokens) iff the tokenizer
\* yielded no Err, and then tokens are the tokenizer's Ok results in order;
\* otherwise it returned Err((first, rest)) with first the first Err yielded
\* and rest every later Err in order, the Ok tokens being dropped.
C2_ParseResult ==
    Finished =>
        LET errs == SelectSeq(Yielded, LAMBDA r : r.kind \in {"EDRB", "UEOF"})
            oks  == SelectSeq(Yielded, LAMBDA r : r.kind \in {"Lit", "Var"})
        IN  /\ result.ok <=> errs = <<>>
            /\ result.ok => DOMAIN result = {"ok", "tokens"} /\ result.tokens = oks
            /\ ~result.ok => /\ DOMAIN result = {"ok", "first", "rest"}
                             /\ result.first = Head(errs)
                             /\ result.rest = Tail(errs)

\* C2 witness: parse returned Err with a non-empty rest, for a text whose
\* tokenizer yields Ok tokens before the first error and after it
C2_Witness ==
    /\ Finished
    /\ ~result.ok
    /\ result.rest # <<>>
    /\ Len(out) >= 3
    /\ out[1].res.kind = "Lit"
    /\ out[Len(out)].res.kind \in {"Lit", "Var"}

\* C3: the tokenizer yields at most Len(text) results, and returns None at
\* the latest on call number Len(text) + 1.
C3_Bounded ==
    /\ Len(out) <= Len(text)
    /\ calls > Len(text) => Exhausted
    /\ calls > Len(out) => Exhausted

\* C3 witness: a malformed text that needs as many results as it has bytes
C3_Witness ==
    /\ Exhausted
    /\ Len(text) >= 3
    /\ Len(out) = Len(text)
    /\ \E k \in 1..Len(out) : out[k].res.kind \in {"EDRB", "UEOF"}

\* offset in rest of the first brace after the two bytes of the opener
HasBraceAfterOpener(rest) == \E p \in 2..(Len(rest) - 1) : rest[p + 1] \in Braces
FirstBraceAfterOpener(rest) ==
    CHOOSE p \in 2..(Len(rest) - 1) :
        /\ rest[p + 1] \in Braces
        /\ \A q \in 2..(p - 1) : rest[q + 1] \notin Braces
\* the two bytes of s at offset p, or fewer at the end of s
Two(s, p) == SubSeq(s, p + 1, IF p + 2 <= Len(s) THEN p + 2 ELSE Len(s))
\* the text that remained when entry e was produced
RestAt(e) == SubSeq(text, e.at + 1, Len(text))

\* C4 as stated: after ExpectedDoubleRightBraces the resume offset is the
\* offending character's position in the remaining text plus one.
C4_Original ==
    \A k \in 1..Len(out) :
        out[k].res.kind = "EDRB" =>
            out[k].off = FirstBraceAfterOpener(RestAt(out[k])) + 1

\* C4 amended: after ExpectedDoubleRightBraces the tokenizer is in literal
\* state with the resume offset equal to the offending character's position
\* in the remaining text, so the following literal step searches from the
\* offending character itself: its literal is at least that long, and ends
\* exactly there when the offending character begins a "{{".
C4_ResumeAtOffender ==
    \A k \in 1..Len(out) :
        out[k].res.kind = "EDRB" =>
            LET rest == RestAt(out[k])
                p    == FirstBraceAfterOpener(rest)
            IN  /\ out[k].off = p
                /\ out[k].nst = "Lit"
                /\ k < Len(out) =>
                     /\ out[k + 1].st = "Lit"
                     /\ out[k + 1].at = out[k].at
                     /\ Len(out[k + 1].span) >= p
                     /\ Two(rest, p) = Open2 => Len(out[k + 1].span) = p

\* C4 witness: the literal after an error ends at the offending character
C4_Witness ==
    \E k \in 1..(Len(out) - 1) :
        /\ out[k].res.kind = "EDRB"
        /\ out[k + 1].res.kind = "Lit"
        /\ Len(out[k + 1].span) = out[k].off
        /\ out[k].off > 2

\* C5 as stated: every error of either kind carries a byte offset.
C5_Original ==
    \A k \in 1..Len(out) :
        out[k].res.kind \in {"EDRB", "UEOF"} => "pos" \in DOMAIN out[k].res

\* C5 amended: ExpectedDoubleRightBraces carries a byte offset into the
\* original text, that of a brace inside the remaining text after the
\* opener; UnexpectedEndOfFile carries no offset.
C5_OffsetOnlyInEdrb ==
    \A k \in 1..Len(out) :
        /\ out[k].res.kind = "EDRB" =>
             /\ DOMAIN out[k].res = {"kind", "pos"}
             /\ out[k].res.pos \in (out[k].at + 2)..(Len(text) - 1)
             /\ text[out[k].res.pos + 1] \in Braces
        /\ out[k].res.kind = "UEOF" => DOMAIN out[k].res = {"kind"}

\* C5 witness: one run yielded both kinds of error, the second not at 0
C5_Witness ==
    /\ \E k \in 1..Len(out) : out[k].res.kind = "EDRB" /\ out[k].at > 0
    /\ \E k \in 1..Len(out) : out[k].res.kind = "UEOF"

\* C6: ExpectedDoubleRightBraces(p) is yielded by a placeholder step, and p
\* is the absolute offset of the first brace after that step's opener; the
\* text at p does not begin with "}}".
C6_EdrbPosition ==
    \A k \in 1..Len(out) :
        out[k].res.kind = "EDRB" =>
            LET a == out[k].at
                p == out[k].res.pos
            IN  /\ out[k].st = "Var"
                /\ Two(text, a) = Open2
                /\ a + 2 <= p /\ p < Len(text)
                /\ text[p + 1] \in Braces
                /\ \A q \in (a + 2)..(p - 1) : text[q + 1] \notin Braces
                /\ Two(text, p) # Close2

\* C6 witness: an error after an earlier error and an earlier token, whose
\* placeholder has a non-empty body
C6_Witness ==
    \E j, k \in 1..Len(out) :
        /\ j < k
        /\ out[j].res.kind = "EDRB"
        /\ out[k].res.kind = "EDRB"
        /\ out[k].at > 0
        /\ out[k].res.pos > out[k].at + 2

\* C7: an Err step consumes nothing and leaves the tokenizer in literal
\* state with text remaining; the next result is a Lit at the same position
\* that begins with "{{" and is at least 2 long; and no two placeholder
\* steps run at the same absolute position.
C7_ErrorRecovery ==
    /\ ret.kind \in {"EDRB", "UEOF"} =>
         t.state = "Lit" /\ t.corpus # <<>> /\ Two(t.corpus, 0) = Open2
    /\ \A k \in 1..Len(out) :
         out[k].res.kind \in {"EDRB", "UEOF"} =>
            /\ out[k].span = <<>>
            /\ out[k].nst = "Lit"
            /\ k < Len(out) =>
                 /\ out[k + 1].res.kind = "Lit"
                 /\ out[k + 1].at = out[k].at
                 /\ Len(out[k + 1].res.s) >= 2
                 /\ Two(out[k + 1].res.s, 0) = Open2
    /\ \A j, k \in 1..Len(out) :
         j < k /\ out[j].st = "Var" /\ out[k].st = "Var" => out[j].at # out[k].at

\* C7 witness: both kinds of error, each followed by its literal
C7_Witness ==
    /\ \E k \in 1..(Len(out) - 1) :
          out[k].res.kind = "EDRB" /\ out[k + 1].res.kind = "Lit"
    /\ \E k \in 1..(Len(out) - 1) :
          out[k].res.kind = "UEOF" /\ out[k + 1].res.kind = "Lit"

\* C8: once next has returned None every later call returns None and leaves
\* the tokenizer as it was; a call returns None exactly when the remaining
\* text is empty; an exhausted tokenizer has yielded nothing iff the text is
\* empty, and parse returns Ok of the empty list iff the text is empty.
C8_Exhaustion ==
    /\ [][ret.kind = "None" => ret'.kind = "None" /\ t' = t /\ out' = out]_vars
    /\ [][calls' # calls => (ret'.kind = "None" <=> t.corpus = <<>>)]_vars
    /\ [](ret.kind = "None" => (out = <<>> <=> text = <<>>))
    /\ [](pc = "done" => (result = [ok |-> TRUE, tokens |-> <<>>] <=> text = <<>>))

\* C8 witness: a second None after the results of a non-empty text
C8_Witness ==
    /\ ret.kind = "None"
    /\ out # <<>>
    /\ calls >= Len(out) + 2
    /\ pc = "done"

\* name is body without its leading and trailing whitespace
IsTrimOf(name, body) ==
    /\ name # <<>> => name[1] # " " /\ name[Len(name)] # " "
    /\ \E x \in 0..(Len(body) - Len(name)) :
         /\ SubSeq(body, x + 1, x + Len(name)) = name
         /\ \A q \in (1..x) \cup ((x + Len(name) + 1)..Len(body)) : body[q] = " "

\* the first brace after the opener of rest begins "}}"
ClosesFirst(rest) ==
    /\ Two(rest, 0) = Open2
    /\ HasBraceAfterOpener(rest)
    /\ Two(rest, FirstBraceAfterOpener(rest)) = Close2

\* C9: a placeholder step yields a Var exactly when the first brace after
\* the opener begins "}}"; the name is the text between, trimmed; the step
\* consumes through the "}}"; the next state is placeholder iff "{{" follows
\* at once, and then the next result comes from a placeholder step at that
\* position and is not a Lit.
C9_VarStep ==
    \A k \in 1..Len(out) :
        LET rest == RestAt(out[k])
        IN  /\ out[k].res.kind = "Var" => out[k].st = "Var"
            /\ out[k].st = "Var" => (out[k].res.kind = "Var" <=> ClosesFirst(rest))
            /\ out[k].res.kind = "Var" =>
                 LET p == FirstBraceAfterOpener(rest)
                 IN  /\ IsTrimOf(out[k].res.s, SubSeq(rest, 3, p))
                     /\ out[k].span = SubSeq(rest, 1, p + 2)
                     /\ out[k].nst = "Var" <=> Two(rest, p + 2) = Open2
                     /\ out[k].nst \in {"Var", "Lit"}
                     /\ out[k].off = 0
                     /\ (k < Len(out) /\ Two(rest, p + 2) = Open2) =>
                          /\ out[k + 1].st = "Var"
                          /\ out[k + 1].res.kind # "Lit"
                          /\ out[k + 1].at = out[k].at + p + 2

\* C9 witness: two adjacent placeholders, the first with whitespace trimmed
C9_Witness ==
    \E k \in 1..(Len(out) - 1) :
        /\ out[k].res.kind = "Var"
        /\ out[k + 1].res.kind = "Var"
        /\ Len(out[k].span) > 4 + Len(out[k].res.s)

\* C10: for "{{" l n r "}}" with l, r whitespace and n without braces or
\* surrounding whitespace, the first call yields Var(n), every later call
\* None, and parse returns Ok of that one token.
C10_TrimmedName ==
    \A l \in Ws, n \in Names, r \in Ws :
        text = Padded(l, n, r) =>
            /\ calls >= 1 => Yielded = <<[kind |-> "Var", s |-> n]>>
            /\ calls >= 2 => ret.kind = "None"
            /\ pc = "done" => result = [ok |-> TRUE,
                                        tokens |-> <<[kind |-> "Var", s |-> n]>>]

\* C10 witness: a name with inner whitespace, padded on both sides
C10_Witness ==
    /\ ret.kind = "None"
    /\ Len(out) = 1
    /\ out[1].res.kind = "Var"
    /\ \E q \in 1..Len(out[1].res.s) : out[1].res.s[q] = " "
    /\ text[3] = " "
    /\ text[Len(text) - 2] = " "

\* s contains "{{"
HasOpen2(s) == \E q \in 1..(Len(s) - 1) : s[q] = "{" /\ s[q + 1] = "{"

\* C11: a non-empty text without "{{" yields exactly one result, a Lit of
\* the whole text, and then None; and every error comes from a step that
\* ran in placeholder state.
C11_PlainText ==
    /\ (text # <<>> /\ ~HasOpen2(text)) =>
         /\ calls >= 1 => Yielded = <<[kind |-> "Lit", s |-> text]>>
         /\ calls >= 2 => ret.kind = "None"
         /\ pc = "done" => result = [ok |-> TRUE,
                                     tokens |-> <<[kind |-> "Lit", s |-> text]>>]
    /\ \A k \in 1..Len(out) :
         out[k].res.kind \notin {"Lit", "Var"} =>
            out[k].res.kind \in {"EDRB", "UEOF"} /\ out[k].st = "Var"

\* C11 witness: a text with single braces and a stray "}}" came out whole
C11_Witness ==
    /\ ret.kind = "None"
    /\ Len(out) = 1
    /\ out[1].res.kind = "Lit"
    /\ \E q \in 1..(Len(text) - 1) : text[q] = "}" /\ text[q + 1] = "}"
    /\ \E q \in 1..Len(text) : text[q] = "{"

\* the fields of tokenizer tk are consistent with the text it was made for
FieldsInRange(tk) ==
    /\ tk.state \in {"Lit", "Var"}
    /\ (tk.state = "Var" /\ tk.corpus # <<>>) =>
          Len(tk.corpus) >= 2 /\ SubSeq(tk.corpus, 1, 2) = Open2
    /\ tk.state = "Lit" => tk.offset <= Len(tk.corpus)
    /\ tk.start + Len(tk.corpus) = Len(text)
    /\ tk.corpus = SubSeq(text, tk.start + 1, Len(text))

\* C17: in every reachable state of either tokenizer, placeholder state with
\* text remaining means the remaining text begins with "{{"; literal state
\* means offset is within the remaining text, and offset is 0 unless the last
\* result was an error; start plus the remaining length is the length of the
\* text; and no call panics on a slice.
C17_FieldInvariant ==
    /\ FieldsInRange(t)
    /\ FieldsInRange(it)
    /\ (t.state = "Lit" /\ t.offset # 0) => ret.kind \in {"EDRB", "UEOF"}
    /\ ret.kind # "Panic"
    /\ \A k \in 1..Len(out) : out[k].res.kind # "Panic"
    /\ (pc = "done" /\ result.ok) =>
          \A k \in 1..Len(result.tokens) : result.tokens[k].kind # "Panic"

\* C17 witness: literal state with a resume offset past the opener, after an
\* error that was not at the start of the text
C17_Witness ==
    /\ t.state = "Lit"
    /\ t.offset > 2
    /\ t.start > 0
    /\ ret.kind = "EDRB"

\* C18: every Lit yielded is non-empty; and in an Ok result of parse no Lit
\* contains "{{", no two neighbours are both Lit, and no Var name contains a
\* brace or begins or ends with whitespace.
C18_TokenShape ==
    /\ \A k \in 1..Len(out) : out[k].res.kind = "Lit" => Len(out[k].res.s) >= 1
    /\ (pc = "done" /\ result.ok) =>
         \A k \in 1..Len(result.tokens) :
            LET tok == result.tokens[k]
            IN  /\ tok.kind = "Lit" => Len(tok.s) >= 1 /\ ~HasOpen2(tok.s)
                /\ (tok.kind = "Lit" /\ k < Len(result.tokens)) =>
                      result.tokens[k + 1].kind # "Lit"
                /\ tok.kind = "Var" =>
                      /\ NoBrace(tok.s)
                      /\ tok.s # <<>> => tok.s[1] # " " /\ tok.s[Len(tok.s)] # " "

\* C18 witness: parse returned Ok with Lit, Var, Lit, the Var's body having
\* had whitespace around it
C18_Witness ==
    /\ pc = "done"
    /\ result.ok
    /\ Len(result.tokens) = 3
    /\ result.tokens[1].kind = "Lit"
    /\ result.tokens[2].kind = "Var"
    /\ result.tokens[3].kind = "Lit"
    /\ Len(text) > Len(result.tokens[1].s) + Len(result.tokens[2].s)
                    + Len(result.tokens[3].s) + 4

\* C19: UnexpectedEndOfFile is yielded at most once; no error follows it;
\* exactly one more result follows it, a Lit of all the text from the
\* unterminated "{{" to the end; and then the tokenizer is exhausted.
C19_EndOfFileLast ==
    /\ Cardinality({k \in 1..Len(out) : out[k].res.kind = "UEOF"}) <= 1
    /\ ret.kind = "UEOF" => t.corpus # <<>>
    /\ \A k \in 1..Len(out) :
         out[k].res.kind = "UEOF" =>
            /\ Len(out) <= k + 1
            /\ SubSeq(text, out[k].at + 1, out[k].at + 2) = Open2
            /\ k < Len(out) =>
                 /\ out[k + 1].res = [kind |-> "Lit",
                                      s |-> SubSeq(text, out[k].at + 1, Len(text))]
                 /\ out[k + 1].at = out[k].at
                 /\ t.corpus = <<>>
            /\ ret.kind = "None" => Len(out) = k + 1

\* C19 witness: an exhausted run whose last error, after an earlier one, was
\* UnexpectedEndOfFile in the middle of the text
C19_Witness ==
    /\ ret.kind = "None"
    /\ \E j, k \in 1..Len(out) :
         /\ j < k
         /\ out[j].res.kind = "EDRB"
         /\ out[k].res.kind = "UEOF"
         /\ out[k].at > 0
         /\ Len(out[k + 1].res.s) > 2

\* every contiguous piece of body
Pieces(body) == {SubSeq(body, a, b) : a \in 1..(Len(body) + 1), b \in 0..Len(body)}
\* body without its leading and trailing whitespace
Trimmed(body) == CHOOSE n \in Pieces(body) : IsTrimOf(n, body)

\* the lines of input that are records, and the first one data::parse
\* must reject: one without exactly two fields, or repeating an earlier key
IsRecord(i) == ~input[i].comment
BadRecord(i) ==
    /\ IsRecord(i)
    /\ \/ Len(input[i].fields) # 2
       \/ \E j \in 1..(i - 1) :
            /\ IsRecord(j)
            /\ Len(input[j].fields) = 2
            /\ Trimmed(input[j].fields[1]) = Trimmed(input[i].fields[1])
FirstBad == CHOOSE i \in 1..Len(input) :
                BadRecord(i) /\ \A j \in 1..(i - 1) : ~BadRecord(j)

\* C16: data::parse returns Ok exactly when no record is bad; the map then
\* holds the trimmed key and trimmed value of every record, one value per
\* key; otherwise it returns the error of the first bad record, and no map.
C16_DataParse ==
    dres.kind \in {"Ok", "Err"} =>
        /\ dres.kind = "Ok" <=> ~\E i \in 1..Len(input) : BadRecord(i)
        /\ dres.kind = "Ok" =>
             /\ DOMAIN dres = {"kind", "output"}
             /\ dres.output = {<<Trimmed(input[i].fields[1]),
                                 Trimmed(input[i].fields[2])>> :
                                   i \in {j \in 1..Len(input) : IsRecord(j)}}
             /\ \A p, q \in dres.output : p[1] = q[1] => p = q
        /\ dres.kind = "Err" =>
             /\ DOMAIN dres = {"kind", "err"}
             /\ LET f == input[FirstBad].fields
                IN  IF Len(f) # 2
                    THEN dres.err = [kind |-> "fields", line |-> FirstBad,
                                     found |-> Len(f)]
                    ELSE dres.err = [kind |-> "duplicate", key |-> Trimmed(f[1])]

\* C16 witness: a key repeated with different padding was rejected
C16_Witness ==
    /\ dres.kind = "Err"
    /\ dres.err.kind = "duplicate"
    /\ \E i, j \in 1..Len(input) :
         /\ i < j
         /\ IsRecord(i) /\ IsRecord(j)
         /\ input[i].fields[1] # input[j].fields[1]

\* the results of a tokenizer run alone from state tk, for at most n calls
RECURSIVE RunFrom(_, _)
RunFrom(tk, n) ==
    IF n = 0 THEN <<>>
    ELSE LET r == next(tk)
         IN  IF r.ret.kind = "None" THEN <<>> ELSE <<r.ret>> \o RunFrom(r.tk, n - 1)
RunAlone(corpus) == RunFrom(new(corpus), Len(corpus) + 1)
IsPrefix(a, b) == Len(a) <= Len(b) /\ SubSeq(b, 1, Len(a)) = a

MainEnded == mpc \in {"ok", "failed", "panic"}
Range(f) == {f[i] : i \in DOMAIN f}

\* C12 as stated: a failed parse of one template does not keep the others
\* from being parsed: when main ends, parse has been called on every template.
C12_Original == MainEnded => attempts = Len(templates)

\* the template whose parse made main fail, when that is why it failed
ParseFailed ==
    /\ mpc = "failed"
    /\ report[1].context = "Failed to parse template-file"

\* C13 as stated: what main reports for a template that failed to parse
\* holds the first error and also the further errors of that template,
\* as a list or as a count.
C13_Original ==
    ParseFailed =>
        LET r == template_parse(templates[report[1].about])
        IN  /\ Display(r.first) \in Range(report)
            /\ r.rest # <<>> =>
                 \/ \A k \in 1..Len(r.rest) : Display(r.rest[k]) \in Range(report)
                 \/ \E x \in Range(report) :
                       "count" \in DOMAIN x /\ x.count = Len(r.rest)

\* the names used by the templates parsed, and the keys of the data file
UsedNames ==
    {tok.s : tok \in {x \in UNION {Range(parsed[i]) : i \in 1..Len(parsed)} :
                        x.kind = "Var"}}
DataKeys == {p[1] : p \in data_parse(stdin).output}
Untouched ==
    \A i \in 1..Len(files) :
        ~files[i].opened /\ ~files[i].truncated /\ files[i].content = <<>>

\* C14: no lookup of eval misses and main never panics; a file is opened or
\* an eval made only after every template has parsed, the data file has
\* validated and every name used is a key; and when a name is missing main
\* fails with a report of exactly the missing names, every output file
\* being left unopened, untruncated and unwritten.
C14_EvalAfterValidation ==
    /\ mpc # "panic"
    /\ \A k \in 1..Len(evals) : evals[k].hit
    /\ (evals # <<>> \/ ~Untouched \/ mpc \in {"open", "write", "ok"}) =>
         /\ attempts = Len(templates)
         /\ Len(parsed) = Len(templates)
         /\ \A i \in 1..Len(templates) : template_parse(templates[i]).ok
         /\ data_parse(stdin).kind = "Ok"
         /\ input_vars = data_parse(stdin).output
         /\ UsedNames \subseteq DataKeys
    /\ ( /\ mpc \notin {"parse", "data"}
         /\ Len(parsed) = Len(templates)
         /\ data_parse(stdin).kind = "Ok"
         /\ UsedNames \ DataKeys # {} ) =>
            /\ mpc = "failed"
            /\ Len(report) = 2
            /\ report[2].names = UsedNames \ DataKeys
            /\ Untouched
            /\ evals = <<>>

\* C14 witness: a run that ended well after writing two templates, with
\* evals made for both names
C14_Witness ==
    /\ mpc = "ok"
    /\ Len(templates) = 2
    /\ {evals[k].name : k \in 1..Len(evals)} = {KeyA, KeyB}
    /\ \A i \in 1..Len(files) : files[i].truncated /\ files[i].content # <<>>

\* a run that failed for two missing names with a data file that validated
MissingReported ==
    /\ mpc = "failed"
    /\ Len(templates) = 2
    /\ Len(report) = 2
    /\ "names" \in DOMAIN report[2]
    /\ Cardinality(report[2].names) = 2

====
